---- MODULE Spec2Model ----
(***************************************************************************)
(* folder-cli: the `tree` sub-command.  main builds the options, calls     *)
(* get_folder_structure on the start path and prints the tree.  Strings    *)
(* are sequences of one-character strings; the four tree-drawing glyphs    *)
(* are one element each.  The file system holds each directory's children  *)
(* as a set; the order in which read_dir lists them is chosen when the     *)
(* traversal starts.                                                       *)
(***************************************************************************)
EXTENDS Integers, Sequences, FiniteSets, TLC

(* ---------------------------- text ------------------------------------- *)

\* Byte value of each character that occurs in a name of the model.
ByteOf ==
  ("." :> 46) @@ ("A" :> 65) @@ ("D" :> 68) @@ ("E" :> 69) @@ ("M" :> 77) @@
  ("R" :> 82) @@ ("a" :> 97) @@ ("c" :> 99) @@ ("d" :> 100) @@ ("f" :> 102) @@
  ("g" :> 103) @@ ("i" :> 105) @@ ("j" :> 106) @@ ("m" :> 109) @@
  ("n" :> 110) @@ ("o" :> 111) @@ ("p" :> 112) @@ ("r" :> 114) @@
  ("s" :> 115) @@ ("t" :> 116) @@ ("/" :> 47) @@ ("(" :> 40) @@
  ("\\xFF" :> 255)

\* A byte that is not part of any valid UTF-8 sequence.
BadByte == "\\xFF"

None == [some |-> FALSE]
Some(v) == [some |-> TRUE, val |-> v]

\* str::starts_with(char)
StartsWithChar(s, c) == Len(s) > 0 /\ s[1] = c

\* str::ends_with(&str)
EndsWith(s, suffix) ==
  /\ Len(suffix) <= Len(s)
  /\ SubSeq(s, Len(s) - Len(suffix) + 1, Len(s)) = suffix

\* str::trim_start_matches('.')
RECURSIVE TrimStartDots(_)
TrimStartDots(s) ==
  IF Len(s) > 0 /\ s[1] = "." THEN TrimStartDots(Tail(s)) ELSE s

\* Ord for String: byte-wise lexicographic comparison.
RECURSIVE StrCmp(_, _)
StrCmp(a, b) ==
  IF Len(a) = 0 /\ Len(b) = 0 THEN "Equal"
  ELSE IF Len(a) = 0 THEN "Less"
  ELSE IF Len(b) = 0 THEN "Greater"
  ELSE IF ByteOf[a[1]] < ByteOf[b[1]] THEN "Less"
  ELSE IF ByteOf[a[1]] > ByteOf[b[1]] THEN "Greater"
  ELSE StrCmp(Tail(a), Tail(b))

\* OsStr::to_str: None when the name is not valid UTF-8.
ToStr(osname) ==
  IF \E i \in 1..Len(osname) : osname[i] = BadByte THEN None ELSE Some(osname)

\* Regex::new on the pattern texts of the model: a text without
\* metacharacters compiles to the matcher of that literal, "(" is rejected.
RegexNew(p) ==
  IF \E i \in 1..Len(p) : p[i] = "(" THEN None ELSE Some(p)

\* Regex::is_match for a literal: the literal occurs somewhere in the text.
IsMatch(re, text) ==
  \E i \in 1..(Len(text) + 1) :
     /\ i + Len(re) - 1 <= Len(text)
     /\ SubSeq(text, i, i + Len(re) - 1) = re

\* iter().any(|ext| file_name.ends_with(ext))
AnyEndsWith(exts, file_name) ==
  \E i \in 1..Len(exts) : EndsWith(file_name, exts[i])

\* iter().any(|re| re.is_match(item_name))
AnyIsMatch(regexes, item_name) ==
  \E i \in 1..Len(regexes) : IsMatch(regexes[i], item_name)

(* ---------------------------- items ------------------------------------ *)

File(name) == [tag |-> "File", name |-> name]
Folder(name, items, has_terminal) ==
  [tag |-> "Folder", name |-> name, items |-> items, has_terminal |-> has_terminal]

Ok(v) == [ok |-> TRUE, val |-> v]
Err(e) == [ok |-> FALSE, err |-> e]

(* ---------------------------- filter policy ---------------------------- *)

\* should_include_file with the negation of the exclude branch left out.
should_include_file_keeps_excluded(file_name, options) ==
  IF options.exclude_extension = <<>> /\ options.include_extension_only = <<>>
  THEN TRUE
  ELSE IF options.exclude_extension /= <<>>
  THEN AnyEndsWith(options.exclude_extension, file_name)
  ELSE AnyEndsWith(options.include_extension_only, file_name)

should_include_file(file_name, options) ==
  IF options.exclude_extension = <<>> /\ options.include_extension_only = <<>>
  THEN TRUE
  ELSE IF options.exclude_extension /= <<>>
  THEN ~AnyEndsWith(options.exclude_extension, file_name)
  ELSE IF options.include_extension_only /= <<>>
  THEN AnyEndsWith(options.include_extension_only, file_name)
  ELSE TRUE

should_include_item(item_name, options) ==
  IF options.exclude_by_filter = <<>>
  THEN TRUE
  ELSE ~AnyIsMatch(options.exclude_by_filter, item_name)

\* Path::file_name: the last component, unless the path ends in "." or "..".
FileName(path) ==
  IF path = <<>> \/ path[Len(path)] \in {<<".">>, <<".", ".">>}
  THEN None
  ELSE Some(path[Len(path)])

\* should_skip_entry without the test for a leading '.'.
should_skip_entry_shows_hidden(path, options) ==
  LET file_name == IF FileName(path).some THEN ToStr(FileName(path).val) ELSE None
  IN  IF file_name.some
      THEN ~should_include_item(file_name.val, options)
      ELSE TRUE

should_skip_entry(path, options) ==
  LET file_name == IF FileName(path).some THEN ToStr(FileName(path).val) ELSE None
  IN  IF file_name.some
      THEN StartsWithChar(file_name.val, ".")
             \/ ~should_include_item(file_name.val, options)
      ELSE TRUE

\* OsStr::to_string_lossy: every invalid byte becomes U+FFFD.
ToStringLossy(osname) ==
  [i \in 1..Len(osname) |-> IF osname[i] = BadByte THEN "\\uFFFD" ELSE osname[i]]

\* unwrap_or_default(): "" when the path has no final component.
get_path_name(path) ==
  IF FileName(path).some THEN ToStringLossy(FileName(path).val) ELSE <<>>

\* handle_file that accepts every file.
handle_file_unfiltered(name, options) == Ok(File(name))

handle_file(name, options) ==
  IF should_include_file(name, options) THEN Ok(File(name)) ELSE Err("Filtered")

(* ---------------------------- sorter ----------------------------------- *)

\* sort_items that compares the names whatever the kinds.
sort_items_by_name_only(a, b) == StrCmp(a.name, b.name)

sort_items(a, b) ==
  IF a.tag = "Folder" /\ b.tag = "Folder" THEN StrCmp(a.name, b.name)
  ELSE IF a.tag = "Folder" /\ b.tag = "File" THEN "Less"
  ELSE IF a.tag = "File" /\ b.tag = "Folder" THEN "Greater"
  ELSE StrCmp(a.name, b.name)

\* Insert x behind every element that does not compare Greater than it.
RECURSIVE InsertSorted(_, _)
InsertSorted(sorted, x) ==
  IF sorted = <<>> THEN <<x>>
  ELSE IF sort_items(x, Head(sorted)) = "Less" THEN <<x>> \o sorted
  ELSE <<Head(sorted)>> \o InsertSorted(Tail(sorted), x)

\* items.sort_by(sort_items): a stable sort.
RECURSIVE SortBy(_)
SortBy(s) ==
  IF s = <<>> THEN <<>>
  ELSE InsertSorted(SortBy(SubSeq(s, 1, Len(s) - 1)), s[Len(s)])

(* ---------------------------- annotation pass -------------------------- *)

\* Returns [item, ret]: the item after the call and the returned bool.
\* iter_mut().any(..) stops at the first child that returns true; the
\* children behind it are not visited by this call.
RECURSIVE update_has_terminal_file(_)
RECURSIVE AnyUpdate(_, _)
AnyUpdate(items, i) ==
  IF i > Len(items) THEN [items |-> items, ret |-> FALSE]
  ELSE LET r == update_has_terminal_file(items[i])
           upd == [items EXCEPT ![i] = r.item]
       IN  IF r.ret THEN [items |-> upd, ret |-> TRUE]
           ELSE AnyUpdate(upd, i + 1)

\* update_has_terminal_file that looks at the direct children only.
update_has_terminal_file_direct(item) ==
  IF item.tag = "File" THEN [item |-> item, ret |-> TRUE]
  ELSE LET a == AnyUpdate(item.items, 1)
           direct == \E i \in 1..Len(item.items) : item.items[i].tag = "File"
       IN  [item |-> Folder(item.name, a.items, Some(direct)), ret |-> direct]

update_has_terminal_file(item) ==
  IF item.tag = "File" THEN [item |-> item, ret |-> TRUE]
  ELSE LET a == AnyUpdate(item.items, 1)
       IN  [item |-> Folder(item.name, a.items, Some(a.ret)), ret |-> a.ret]

(* ---------------------------- traversal engine ------------------------- *)

\* create_folder_item that rejects an empty folder whatever the options.
create_folder_item_never_empty(path, name, items, options) ==
  IF items = <<>>
  THEN Err("EmptyFolder")
  ELSE LET folder_name == IF path = <<<<".">>>> THEN <<".">> ELSE name
       IN  Ok(Folder(folder_name, items, None))

create_folder_item(path, name, items, options) ==
  IF items = <<>> /\ ~options.show_empty_folder
  THEN Err("EmptyFolder")
  ELSE LET folder_name == IF path = <<<<".">>>> THEN <<".">> ELSE name
       IN  Ok(Folder(folder_name, items, None))

\* read_dir whose failure is taken for an empty listing.
ReadDir_failure_as_empty(node) ==
  IF node.kind = "dir" /\ node.readable THEN Ok(node.entries) ELSE Ok(<<>>)

\* fs::read_dir(path) and the entries it yields, in the order of the listing.
ReadDir(node) ==
  IF node.kind = "dir" /\ node.readable THEN Ok(node.entries) ELSE Err("IoError")

\* `node` is what the listing holds at `path`.
RECURSIVE get_folder_structure(_, _, _)
RECURSIVE ProcessEntries(_, _, _, _, _)
RECURSIVE process_directory(_, _, _)
\* The body of the for loop of process_directory, from entry i on.
ProcessEntries(path, entries, i, items, options) ==
  IF i > Len(entries) THEN Ok(items)
  ELSE LET entry_path == Append(path, entries[i].name)
       IN  IF should_skip_entry(entry_path, options)
           THEN ProcessEntries(path, entries, i + 1, items, options)
           ELSE LET r == get_folder_structure(entry_path, entries[i], options)
                IN  IF r.ok
                    THEN ProcessEntries(path, entries, i + 1, Append(items, r.val), options)
                    ELSE IF r.err \in {"Filtered", "EmptyFolder"}
                    THEN ProcessEntries(path, entries, i + 1, items, options)
                    ELSE r

\* process_directory without the final sort.
process_directory_unsorted(path, node, options) ==
  LET rd == ReadDir(node)
  IN  IF ~rd.ok THEN rd ELSE ProcessEntries(path, rd.val, 1, <<>>, options)

process_directory(path, node, options) ==
  LET rd == ReadDir(node)
  IN  IF ~rd.ok THEN rd
      ELSE LET r == ProcessEntries(path, rd.val, 1, <<>>, options)
           IN  IF r.ok THEN Ok(SortBy(r.val)) ELSE r

\* get_folder_structure that runs the annotation pass in the root call only.
get_folder_structure_annotates_root_only(path, node, options) ==
  LET name == get_path_name(path)
  IN  IF node.kind = "file" THEN handle_file(name, options)
      ELSE LET items == process_directory(path, node, options)
           IN  IF ~items.ok THEN items
               ELSE LET folder == create_folder_item(path, name, items.val, options)
                    IN  IF ~folder.ok THEN folder
                        ELSE IF Len(path) = 1
                        THEN Ok(update_has_terminal_file(folder.val).item)
                        ELSE folder

get_folder_structure(path, node, options) ==
  LET name == get_path_name(path)
  IN  IF node.kind = "file" THEN handle_file(name, options)
      ELSE LET items == process_directory(path, node, options)
           IN  IF ~items.ok THEN items
               ELSE LET folder == create_folder_item(path, name, items.val, options)
                    IN  IF ~folder.ok THEN folder
                        ELSE Ok(update_has_terminal_file(folder.val).item)

(* ---------------------------- renderer --------------------------------- *)

UnwrapOr(opt, d) == IF opt.some THEN opt.val ELSE d

\* The string literals of print_structure, written in ASCII: the corner
\* U+2514 U+2500 U+2500 space, the tee U+251C U+2500 U+2500 space, the bar
\* U+2502 and three spaces, and four spaces.
CornerGlyph == "+-- "
TeeGlyph == "|-- "
BarGlyph == "|   "
Indent == "    "

\* The lines print_structure writes to standard output, in order.
RECURSIVE print_structure(_, _, _, _)
RECURSIVE PrintChildren(_, _, _, _)
PrintChildren(items, i, new_prefix, option) ==
  IF i > Len(items) THEN <<>>
  ELSE print_structure(items[i], new_prefix, i = Len(items), option)
         \o PrintChildren(items, i + 1, new_prefix, option)

print_structure(item, prefix, is_last, option) ==
  LET marker == IF is_last THEN CornerGlyph ELSE TeeGlyph
      next_prefix == IF is_last THEN Indent ELSE BarGlyph
  IN  IF item.tag = "File"
      THEN << prefix \o <<marker>> \o item.name >>
      ELSE IF ~option.show_empty_folder /\ ~UnwrapOr(item.has_terminal, FALSE)
      THEN <<>>
      ELSE LET line == IF prefix = <<>> THEN item.name
                       ELSE prefix \o <<marker>> \o item.name \o <<"/">>
               new_prefix == IF prefix = <<>> THEN <<Indent>>
                             ELSE prefix \o <<next_prefix>>
           IN  <<line>> \o PrintChildren(item.items, 1, new_prefix, option)

print_tree(root, option) == print_structure(root, <<>>, TRUE, option)

(* ---------------------------- options builder -------------------------- *)

\* Option<Vec<_>>::as_ref().unwrap_or(&vec![]).is_empty()
UnsetOrEmpty(field) == UnwrapOr(field, <<>>) = <<>>

\* validate that rejects as soon as one of the two lists is non-empty.
validate_either(b) ==
  IF ~UnsetOrEmpty(b.exclude_extension) \/ ~UnsetOrEmpty(b.include_extension_only)
  THEN Err("Cannot specify both exclude_extension and include_extension_only")
  ELSE Ok(TRUE)

validate(b) ==
  IF ~UnsetOrEmpty(b.exclude_extension) /\ ~UnsetOrEmpty(b.include_extension_only)
  THEN Err("Cannot specify both exclude_extension and include_extension_only")
  ELSE Ok(TRUE)

\* FolderStructureOptionsBuilder::build, as derive_builder generates it:
\* validate first, then every unset field takes its default.
build(b) ==
  IF ~validate(b).ok THEN validate(b)
  ELSE Ok([exclude_extension      |-> UnwrapOr(b.exclude_extension, <<>>),
           exclude_by_filter      |-> UnwrapOr(b.exclude_by_filter, <<>>),
           include_extension_only |-> UnwrapOr(b.include_extension_only, <<>>),
           show_empty_folder      |-> UnwrapOr(b.show_empty_folder, FALSE)])

(* ---------------------------- file systems ----------------------------- *)

\* Largest number of directory levels below the start path.
MaxDepth == 2
\* Largest number of entries of one directory.
MaxEntries == 3
\* Largest number of files and directories below the start path.
MaxNodes == 4

MainRs   == <<"m", "a", "i", "n", ".", "r", "s">>
ReadmeMd == <<"R", "E", "A", "D", "M", "E", ".", "m", "d">>
DotGit   == <<".", "g", "i", "t">>
Config   == <<"c", "o", "n", "f", "i", "g">>
BadRs    == <<BadByte, ".", "r", "s">>
Proj     == <<"p", "r", "o", "j">>

FileNames == {MainRs, ReadmeMd, DotGit, Config, BadRs}
DirNames  == {MainRs, DotGit, Config}

FileNode(name) == [name |-> name, kind |-> "file", readable |-> TRUE, entries |-> {}]
DirNode(name, readable, entries) ==
  [name |-> name, kind |-> "dir", readable |-> readable, entries |-> entries]

RECURSIVE NodeCount(_)
RECURSIVE NodeCountAll(_)
NodeCountAll(nodes) ==
  IF nodes = {} THEN 0
  ELSE LET x == CHOOSE y \in nodes : TRUE
       IN  NodeCount(x) + NodeCountAll(nodes \ {x})
NodeCount(node) == 1 + NodeCountAll(node.entries)

\* NodesOf(d, n): the files and directories with at most d levels below
\* them and at most n nodes in all.  EntrySetsOf(d, n, k): the sets of at
\* most k of them, of distinct names, with at most n nodes in all.
RECURSIVE NodesOf(_, _)
RECURSIVE EntrySetsOf(_, _, _)
NodesOf(d, n) ==
  IF n < 1 THEN {}
  ELSE {FileNode(name) : name \in FileNames}
       \cup {DirNode(name, FALSE, {}) : name \in DirNames}
       \cup {DirNode(name, TRUE, es) :
                name \in DirNames,
                es \in IF d = 0 THEN {{}} ELSE EntrySetsOf(d - 1, n - 1, MaxEntries)}

EntrySetsOf(d, n, k) ==
  IF k = 0 \/ n < 1 THEN {{}}
  ELSE {{}} \cup
       UNION {{ {x} \cup rest :
                 rest \in {r \in EntrySetsOf(d, n - NodeCount(x), k - 1) :
                             \A y \in r : y.name /= x.name} } :
              x \in NodesOf(d, n)}

\* What the start path may denote: a directory or a single file.
RootNodes ==
  {DirNode(Proj, r, es) : r \in {TRUE}, es \in EntrySetsOf(MaxDepth - 1, MaxNodes, MaxEntries)}
  \cup {DirNode(Proj, FALSE, {})}
  \cup {FileNode(name) : name \in {MainRs, ReadmeMd}}

\* The orders in which a set can be listed.
RECURSIVE Orders(_)
Orders(set) ==
  IF set = {} THEN {<<>>}
  ELSE UNION {{<<x>> \o rest : rest \in Orders(set \ {x})} : x \in set}

\* Every assignment of one listing to each member of a sequence of nodes.
RECURSIVE Listings(_)
RECURSIVE ListingsSeq(_)
ListingsSeq(nodes) ==
  IF nodes = <<>> THEN {<<>>}
  ELSE {<<h>> \o t : h \in Listings(Head(nodes)), t \in ListingsSeq(Tail(nodes))}

\* The file system below `node` as read_dir may list it: every directory's
\* entries in some order.
Listings(node) ==
  {[node EXCEPT !.entries = l] :
     l \in UNION {ListingsSeq(o) : o \in Orders(node.entries)}}

(* ---------------------------- main -------------------------------------- *)

Rs    == <<"r", "s">>
DotMd == <<".", "m", "d">>
Con   == <<"c", "o", "n">>
Paren == <<"(">>

VARIABLES
  fs,       \* what the start path denotes on disk
  cli,      \* the parsed arguments of `tree`
  builder,  \* the FolderStructureOptionsBuilder: each field None until set
  options,  \* Some(FolderStructureOptions) once built
  result,   \* Some(result of get_folder_structure) once called
  stdout,   \* the lines printed so far
  stderr,   \* the kinds of message written to standard error so far
  pc        \* where main is

vars == <<fs, cli, builder, options, result, stdout, stderr, pc>>

\* The start paths that denote `node`: its name, or "." for the directory
\* the program runs in.
PathsTo(node) ==
  {<<node.name>>} \cup (IF node.kind = "dir" THEN {<<<<".">>>>} ELSE {})

\* FolderStructureOptionsBuilder::default()
DefaultBuilder ==
  [show_empty_folder |-> None, include_extension_only |-> None,
   exclude_extension |-> None, exclude_by_filter |-> None]

InitWith(roots, includes, excludes, patterns) ==
  /\ fs \in roots
  /\ cli \in {[path |-> p, show_empty |-> e, include |-> i, exclude |-> x,
                exclude_pattern |-> f] :
                 p \in PathsTo(fs), e \in BOOLEAN, i \in includes,
                 x \in excludes, f \in patterns}
  /\ builder = DefaultBuilder
  /\ options = None
  /\ result = None
  /\ stdout = <<>>
  /\ stderr = <<>>
  /\ pc = "main"

\* Every file system of the bounds; each of --include, --exclude and
\* --exclude-pattern given or not, the patterns being one that does not
\* compile and one that does.
Init ==
  InitWith(RootNodes, {None, Some(<<Rs>>)}, {None, Some(<<DotMd>>)},
           {None, Some(<<Paren, Con>>)})

MapTrim(exts) == [i \in 1..Len(exts) |-> TrimStartDots(exts[i])]

\* patterns.iter().filter_map(Regex::new ...).collect()
RECURSIVE CompileAll(_)
CompileAll(patterns) ==
  IF patterns = <<>> THEN <<>>
  ELSE IF RegexNew(Head(patterns)).some
  THEN <<RegexNew(Head(patterns)).val>> \o CompileAll(Tail(patterns))
  ELSE CompileAll(Tail(patterns))

RECURSIVE InvalidPatternMessages(_)
InvalidPatternMessages(patterns) ==
  IF patterns = <<>> THEN <<>>
  ELSE (IF RegexNew(Head(patterns)).some THEN <<>> ELSE <<"Invalid regex pattern">>)
         \o InvalidPatternMessages(Tail(patterns))

\* The builder after the setter calls of main.
ConfiguredBuilder(b, args) ==
  [show_empty_folder      |-> Some(args.show_empty),
   include_extension_only |-> IF args.include.some
                              THEN Some(MapTrim(args.include.val))
                              ELSE b.include_extension_only,
   exclude_extension      |-> IF args.exclude.some
                              THEN Some(MapTrim(args.exclude.val))
                              ELSE b.exclude_extension,
   exclude_by_filter      |-> IF args.exclude_pattern.some
                              THEN Some(CompileAll(args.exclude_pattern.val))
                              ELSE b.exclude_by_filter]

\* main: the setter calls, each made only when its argument was given.
Configure ==
  /\ pc = "main"
  /\ builder' = ConfiguredBuilder(builder, cli)
  /\ stderr' = stderr \o (IF cli.exclude_pattern.some
                           THEN InvalidPatternMessages(cli.exclude_pattern.val)
                           ELSE <<>>)
  /\ pc' = "configured"
  /\ UNCHANGED <<fs, cli, options, result, stdout>>

\* main: options_builder.build() succeeds.
BuildOptions ==
  /\ pc = "configured"
  /\ build(builder).ok
  /\ options' = Some(build(builder).val)
  /\ pc' = "built"
  /\ UNCHANGED <<fs, cli, builder, result, stdout, stderr>>

\* main: options_builder.build() fails; main reports it and returns.
BuildOptionsFails ==
  /\ pc = "configured"
  /\ ~build(builder).ok
  /\ stderr' = Append(stderr, "Error building options")
  /\ pc' = "done"
  /\ UNCHANGED <<fs, cli, builder, options, result, stdout>>

\* main: the call of get_folder_structure; read_dir lists each directory
\* in an order of its own choosing.
Traverse ==
  /\ pc = "built"
  /\ \E listing \in Listings(fs) :
        result' = Some(get_folder_structure(cli.path, listing, options.val))
  /\ pc' = "traversed"
  /\ UNCHANGED <<fs, cli, builder, options, stdout, stderr>>

\* main: Ok(root) => print_tree(&root, &options)
PrintTree ==
  /\ pc = "traversed"
  /\ result.val.ok
  /\ stdout' = stdout \o print_tree(result.val.val, options.val)
  /\ pc' = "done"
  /\ UNCHANGED <<fs, cli, builder, options, result, stderr>>

\* main: Err(e) => eprintln!("Error creating folder tree: {:?}", e)
ReportError ==
  /\ pc = "traversed"
  /\ ~result.val.ok
  /\ stderr' = Append(stderr, "Error creating folder tree")
  /\ pc' = "done"
  /\ UNCHANGED <<fs, cli, builder, options, result, stdout>>

Next ==
  \/ Configure
  \/ BuildOptions
  \/ BuildOptionsFails
  \/ Traverse
  \/ PrintTree
  \/ ReportError

Spec == Init /\ [][Next]_vars

(* The builder under any sequence of setter calls, followed by the rest of *)
(* main.  A setter stores Some(value); the value may be an empty list.     *)

ExtensionLists == {<<>>, <<Rs>>, <<TrimStartDots(DotMd)>>}
FilterLists == {<<>>, <<Con>>}

SetShowEmptyFolder ==
  /\ pc = "main"
  /\ \E v \in BOOLEAN : builder' = [builder EXCEPT !.show_empty_folder = Some(v)]
  /\ UNCHANGED <<fs, cli, options, result, stdout, stderr, pc>>

SetIncludeExtensionOnly ==
  /\ pc = "main"
  /\ \E v \in ExtensionLists :
        builder' = [builder EXCEPT !.include_extension_only = Some(v)]
  /\ UNCHANGED <<fs, cli, options, result, stdout, stderr, pc>>

SetExcludeExtension ==
  /\ pc = "main"
  /\ \E v \in ExtensionLists :
        builder' = [builder EXCEPT !.exclude_extension = Some(v)]
  /\ UNCHANGED <<fs, cli, options, result, stdout, stderr, pc>>

SetExcludeByFilter ==
  /\ pc = "main"
  /\ \E v \in FilterLists :
        builder' = [builder EXCEPT !.exclude_by_filter = Some(v)]
  /\ UNCHANGED <<fs, cli, options, result, stdout, stderr, pc>>

\* The caller goes on to build().
CallBuild ==
  /\ pc = "main"
  /\ pc' = "configured"
  /\ UNCHANGED <<fs, cli, builder, options, result, stdout, stderr>>

\* A few start directories; the arguments of main are not used.
BuilderRoots ==
  {DirNode(Proj, TRUE, es) : es \in EntrySetsOf(0, 1, 1)}

InitBuilder == InitWith(BuilderRoots, {None}, {None}, {None})

NextBuilder ==
  \/ SetShowEmptyFolder
  \/ SetIncludeExtensionOnly
  \/ SetExcludeExtension
  \/ SetExcludeByFilter
  \/ CallBuild
  \/ BuildOptions
  \/ BuildOptionsFails
  \/ Traverse
  \/ PrintTree
  \/ ReportError

SpecBuilder == InitBuilder /\ [][NextBuilder]_vars

(* ---------------------------- vocabulary of the properties -------------- *)

Returned == result.some /\ result.val.ok
Tree == result.val.val
Failed(kind) == result.some /\ ~result.val.ok /\ result.val.err = kind

\* Every node of a tree of items, the tree's root included.
RECURSIVE SubItems(_)
SubItems(item) ==
  {item} \cup (IF item.tag = "Folder"
                THEN UNION {SubItems(item.items[i]) : i \in 1..Len(item.items)}
                ELSE {})

FoldersIn(item) == {x \in SubItems(item) : x.tag = "Folder"}
ContainsFile(item) == \E x \in SubItems(item) : x.tag = "File"

\* The number of nodes of a tree of items.
RECURSIVE TreeSize(_)
RECURSIVE TreeSizeFrom(_, _)
TreeSizeFrom(items, i) ==
  IF i > Len(items) THEN 0 ELSE TreeSize(items[i]) + TreeSizeFrom(items, i + 1)
TreeSize(item) ==
  IF item.tag = "File" THEN 1 ELSE 1 + TreeSizeFrom(item.items, 1)

\* The item found by following the names down from `item`, if there is one.
RECURSIVE ItemAt(_, _)
ItemAt(item, names) ==
  IF names = <<>> THEN Some(item)
  ELSE IF item.tag = "Folder"
          /\ \E i \in 1..Len(item.items) : item.items[i].name = Head(names)
  THEN ItemAt(item.items[CHOOSE i \in 1..Len(item.items) :
                           item.items[i].name = Head(names)], Tail(names))
  ELSE None

\* The chains of the file system: the start node, one of its entries, one
\* of that entry's entries, and so on.
RECURSIVE Chains(_)
Chains(node) ==
  {<<node>>} \cup UNION {{<<node>> \o c : c \in Chains(e)} : e \in node.entries}

Last(c) == c[Len(c)]
\* The names along a chain, below the start node.
NamesBelow(c) == [i \in 1..(Len(c) - 1) |-> c[i + 1].name]

Hidden(name) == Len(name) > 0 /\ name[1] = "."
ValidUtf8(name) == \A i \in 1..Len(name) : name[i] /= BadByte
MatchesFilter(name, opts) ==
  \E i \in 1..Len(opts.exclude_by_filter) : IsMatch(opts.exclude_by_filter[i], name)
\* The extension rule, as the documentation of the options states it.
ExtensionPasses(name, opts) ==
  IF opts.exclude_extension /= <<>>
  THEN \A i \in 1..Len(opts.exclude_extension) :
          ~EndsWith(name, opts.exclude_extension[i])
  ELSE opts.include_extension_only = <<>>
       \/ \E i \in 1..Len(opts.include_extension_only) :
             EndsWith(name, opts.include_extension_only[i])

NameShown(name, opts) == ~Hidden(name) /\ ~MatchesFilter(name, opts)
NameKept(name, opts) == ValidUtf8(name) /\ NameShown(name, opts)

\* A directory that can be listed and has nothing to show: each entry is
\* hidden, excluded by a pattern, a file the extension rule rejects, or,
\* when empty folders are not shown, a directory of the same sort.
RECURSIVE NothingToShow(_, _)
NothingToShow(dir, opts) ==
  /\ dir.kind = "dir"
  /\ dir.readable
  /\ \A e \in dir.entries :
        \/ Hidden(e.name)
        \/ MatchesFilter(e.name, opts)
        \/ e.kind = "file" /\ ~ExtensionPasses(e.name, opts)
        \/ e.kind = "dir" /\ ~opts.show_empty_folder /\ NothingToShow(e, opts)

\* The name the root folder of the tree carries.
RootName == IF cli.path = <<<<".">>>> THEN <<".">> ELSE fs.name

Glyphs == {CornerGlyph, TeeGlyph, BarGlyph, Indent}
\* A printed line: the number of glyphs in front, the last of them, the
\* name, and whether a '/' follows the name.
GlyphCount(line) == Cardinality({i \in 1..Len(line) : line[i] \in Glyphs})
Marker(line) == line[GlyphCount(line)]
EndsInSlash(line) == Len(line) > 0 /\ line[Len(line)] = "/"
LineName(line) ==
  SubSeq(line, GlyphCount(line) + 1,
         IF EndsInSlash(line) THEN Len(line) - 1 ELSE Len(line))

(* ---------------------------- properties -------------------------------- *)

\* C1: in a tree that get_folder_structure returned, every Folder, at every
\* depth, carries Some(b), and b is true exactly when the Folder's subtree
\* holds a File; also for a folder behind a sibling that reported true.
AnnotationIsExact ==
  Returned =>
    \A f \in FoldersIn(Tree) :
       /\ f.has_terminal.some
       /\ f.has_terminal.val <=> ContainsFile(f)

\* A folder with a file in it, followed by a sibling folder without one.
AnnotatedAfterTrueSibling ==
  /\ Returned
  /\ \E f \in FoldersIn(Tree) : \E i, j \in 1..Len(f.items) :
        /\ i < j
        /\ f.items[i].tag = "Folder" /\ ContainsFile(f.items[i])
        /\ f.items[j].tag = "Folder" /\ f.items[j].has_terminal = Some(FALSE)

\* The children of `item` that print_tree shows, as [depth, name], in the
\* order in which they are stored.
Displayed(item, opts) ==
  item.tag = "File" \/ opts.show_empty_folder \/ ContainsFile(item)

RECURSIVE StoredWalk(_, _, _, _)
StoredWalk(items, i, depth, opts) ==
  IF i > Len(items) THEN <<>>
  ELSE (IF ~Displayed(items[i], opts) THEN <<>>
        ELSE <<[depth |-> depth, name |-> items[i].name]>>
               \o (IF items[i].tag = "Folder"
                    THEN StoredWalk(items[i].items, 1, depth + 1, opts)
                    ELSE <<>>))
       \o StoredWalk(items, i + 1, depth, opts)

PrintedWalk(lines) ==
  [i \in 1..Len(lines) |->
     [depth |-> GlyphCount(lines[i]), name |-> LineName(lines[i])]]

FoldersThenFiles(items) ==
  \A i, j \in 1..Len(items) :
     i < j =>
       \/ items[i].tag = "Folder" /\ items[j].tag = "File"
       \/ /\ items[i].tag = items[j].tag
          /\ StrCmp(items[i].name, items[j].name) = "Less"

\* C2: in every Folder of a returned tree the children are the Folders in
\* ascending name order, then the Files in ascending name order, and the
\* lines print_tree writes below the root follow that stored order.
SiblingsSortedAndPrintedInOrder ==
  /\ Returned => \A f \in FoldersIn(Tree) : FoldersThenFiles(f.items)
  /\ (pc = "done" /\ Returned /\ Tree.tag = "Folder") =>
       PrintedWalk(Tail(stdout)) = StoredWalk(Tree.items, 1, 2, options.val)

\* Printed: a folder in front of two files, one of which has a name below
\* the folder's.
FolderBeforeSmallerFileName ==
  /\ pc = "done" /\ Returned /\ Tree.tag = "Folder"
  /\ Len(Tree.items) = 3
  /\ Tree.items[1].tag = "Folder"
  /\ Tree.items[2].tag = "File" /\ Tree.items[3].tag = "File"
  /\ StrCmp(Tree.items[2].name, Tree.items[1].name) = "Less"

\* Some line of the output is the one of a folder of this name, this many
\* names below the root.
FolderLinePrinted(names) ==
  \E i \in 1..Len(stdout) :
     IF names = <<>>
     THEN i = 1 /\ stdout[i] = RootName
     ELSE /\ GlyphCount(stdout[i]) = Len(names) + 1
          /\ EndsInSlash(stdout[i])
          /\ LineName(stdout[i]) = names[Len(names)]

\* C3: a directory that is reached and has nothing to show, be it empty on
\* disk or emptied by the filters, fails with EmptyFolder (as a child: is
\* left out of its parent) when empty folders are not shown, and is a
\* Folder without children, printed by print_tree, when they are.
EmptyAndFilteredOutAlike ==
  (result.some /\ ~Failed("IoError")) =>
    \A c \in Chains(fs) :
       LET names == NamesBelow(c)
           opts == options.val
       IN  (/\ NothingToShow(Last(c), opts)
            /\ \A i \in 1..Len(names) : NameKept(names[i], opts))
           =>
           IF ~opts.show_empty_folder
           THEN IF names = <<>> THEN Failed("EmptyFolder")
                ELSE Returned => ~ItemAt(Tree, names).some
           ELSE /\ Returned
                /\ ItemAt(Tree, names).some
                /\ ItemAt(Tree, names).val.tag = "Folder"
                /\ ItemAt(Tree, names).val.items = <<>>
                /\ pc = "done" => FolderLinePrinted(names)

\* Printed with empty folders shown: a directory empty on disk next to one
\* whose entries were all filtered out, both as Folders without children.
EmptyAndFilteredOutBothPrinted ==
  /\ pc = "done" /\ Returned /\ options.val.show_empty_folder
  /\ \E d, e \in fs.entries :
        /\ d.kind = "dir" /\ d.readable /\ d.entries = {}
        /\ e.kind = "dir" /\ e.entries /= {} /\ NothingToShow(e, options.val)
        /\ ItemAt(Tree, <<d.name>>).some /\ ItemAt(Tree, <<e.name>>).some
        /\ ItemAt(Tree, <<e.name>>).val.items = <<>>

\* C4: whatever the options, no node below the root of a returned tree has
\* a name that starts with '.', and nothing that lies under a hidden
\* directory on disk is in the tree.
HiddenNeverInTree ==
  Returned =>
    /\ \A x \in SubItems(Tree) : x = Tree \/ ~Hidden(x.name)
    /\ \A c \in Chains(fs) :
          (\E i \in 1..Len(NamesBelow(c)) : Hidden(NamesBelow(c)[i]))
             => ~ItemAt(Tree, NamesBelow(c)).some

\* Returned, under an extension list and a pattern, from a directory that
\* holds a hidden directory with an entry of its own.
HiddenDirectoryLeftOut ==
  /\ Returned
  /\ options.val.include_extension_only /= <<>>
  /\ options.val.exclude_by_filter /= <<>>
  /\ Tree.tag = "Folder" /\ Tree.items /= <<>>
  /\ \E e \in fs.entries : Hidden(e.name) /\ e.kind = "dir" /\ e.entries /= {}

\* C5: the outcome of get_folder_structure and the lines of print_tree are
\* those of every other order in which the directories could have been
\* listed.
OutcomeIndependentOfListingOrder ==
  result.some =>
    \A listing \in Listings(fs) :
       /\ get_folder_structure(cli.path, listing, options.val) = result.val
       /\ (pc = "done" /\ Returned) =>
            stdout = print_tree(get_folder_structure(cli.path, listing, options.val).val,
                                options.val)

\* Printed: a tree whose root has several children, one of them a folder
\* with several children of its own.
SeveralListingOrders ==
  /\ pc = "done" /\ Returned /\ Tree.tag = "Folder"
  /\ Len(Tree.items) >= 2
  /\ \E i \in 1..Len(Tree.items) :
        Tree.items[i].tag = "Folder" /\ Len(Tree.items[i].items) >= 2

\* A directory that cannot be listed, at the end of a chain of names.
Unreadable(c) == Last(c).kind = "dir" /\ ~Last(c).readable

\* C6: a child's Filtered or EmptyFolder stays with its parent: the child
\* is left out and its siblings are kept.  A directory that cannot be
\* listed and is reached makes the root call fail with IoError, and main
\* prints no line; IoError comes from no directory under a name that is
\* hidden or matches a pattern.
ChildFailuresSwallowedIoErrorFatal ==
  result.some =>
    LET opts == options.val
    IN  /\ Failed("Filtered") => fs.kind = "file"
        /\ (fs.kind = "dir" /\ ~Failed("IoError")) =>
             \A e \in fs.entries :
                (e.kind = "file" /\ NameKept(e.name, opts)
                   /\ ExtensionPasses(e.name, opts))
                  => Returned /\ ItemAt(Tree, <<e.name>>) = Some(File(e.name))
        /\ (\E c \in Chains(fs) :
               /\ Unreadable(c)
               /\ \A i \in 1..Len(NamesBelow(c)) : NameKept(NamesBelow(c)[i], opts))
             => Failed("IoError")
        /\ Failed("IoError") =>
             \E c \in Chains(fs) :
                /\ Unreadable(c)
                /\ \A i \in 1..Len(NamesBelow(c)) : NameShown(NamesBelow(c)[i], opts)
        /\ ~Returned => stdout = <<>>

\* main has reported IoError for a directory two levels down, next to a
\* file that the extension rule rejects.
NestedIoErrorReported ==
  /\ pc = "done" /\ Failed("IoError")
  /\ fs.readable
  /\ \E c \in Chains(fs) : Len(c) = 3 /\ Unreadable(c)
  /\ \E e \in fs.entries :
        e.kind = "file" /\ ~ExtensionPasses(e.name, options.val)

\* The example: proj holds main.rs, README.md and .git/config; the call is
\* `tree proj --include rs`.
ProjExample ==
  /\ fs = DirNode(Proj, TRUE,
                  {FileNode(MainRs), FileNode(ReadmeMd),
                   DirNode(DotGit, TRUE, {FileNode(Config)})})
  /\ cli.path = <<Proj>>
  /\ ~cli.show_empty
  /\ cli.include = Some(<<Rs>>)
  /\ cli.exclude = None
  /\ cli.exclude_pattern = None

\* C7, as claimed: the output for the example is the line `proj/` and then
\* the line made of the corner glyph and `main.rs`.
ProjExamplePrintsSlashAndBareCorner ==
  (ProjExample /\ pc = "done") =>
    stdout = << Proj \o <<"/">>, <<CornerGlyph>> \o MainRs >>

\* C7, amended: the output for the example is the line `proj`, without a
\* slash, and then a line of four spaces, the corner glyph and `main.rs`;
\* no other line is printed.
ProjExamplePrintsBareRootAndIndentedCorner ==
  (ProjExample /\ pc = "done") =>
    stdout = << Proj, <<Indent, CornerGlyph>> \o MainRs >>

\* main has printed the tree of the example.
ProjExamplePrinted ==
  ProjExample /\ pc = "done" /\ Returned /\ Len(stdout) = 2

BothListsNonEmpty(b) ==
  /\ b.exclude_extension.some /\ b.exclude_extension.val /= <<>>
  /\ b.include_extension_only.some /\ b.include_extension_only.val /= <<>>

\* C8: build fails exactly when both extension lists were set to non-empty
\* lists; main then reports it and neither traverses nor prints, so no
\* options with both lists non-empty reach get_folder_structure.
BuildFailsIffBothListsNonEmpty ==
  /\ pc \notin {"main", "configured"} =>
       /\ BothListsNonEmpty(builder) <=> options = None
       /\ options = None =>
            /\ pc = "done" /\ result = None /\ stdout = <<>>
            /\ stderr /= <<>> /\ stderr[Len(stderr)] = "Error building options"
  /\ options.some =>
       ~(options.val.exclude_extension /= <<>>
           /\ options.val.include_extension_only /= <<>>)
  /\ result.some => options.some

\* main has returned after a build with both lists non-empty.
BuildRejectedBothLists ==
  pc = "done" /\ BothListsNonEmpty(builder) /\ options = None

\* A file of the chain is in the tree, under the same names.
FileInTree(c) == ItemAt(Tree, NamesBelow(c)) = Some(File(Last(c).name))

\* C9, as claimed: a file below a directory root is in the returned tree
\* exactly when its name and the names of the directories between the root
\* and it neither start with '.' nor match a pattern, and its name passes
\* the extension rule.
FileShownIffNamesShownAndExtensionPasses ==
  (Returned /\ fs.kind = "dir") =>
    \A c \in Chains(fs) :
       (Len(c) > 1 /\ Last(c).kind = "file") =>
         (FileInTree(c) <=>
            /\ \A i \in 1..Len(NamesBelow(c)) : NameShown(NamesBelow(c)[i], options.val)
            /\ ExtensionPasses(Last(c).name, options.val))

\* C9, amended: ... exactly when its name and the names of the directories
\* between the root and it are valid UTF-8, neither start with '.' nor
\* match a pattern, and its name passes the extension rule.
FileShownIffNamesKeptAndExtensionPasses ==
  (Returned /\ fs.kind = "dir") =>
    \A c \in Chains(fs) :
       (Len(c) > 1 /\ Last(c).kind = "file") =>
         (FileInTree(c) <=>
            /\ \A i \in 1..Len(NamesBelow(c)) : NameKept(NamesBelow(c)[i], options.val)
            /\ ExtensionPasses(Last(c).name, options.val))

\* Returned under a pattern and an extension list, with empty folders
\* shown: one file is in the tree under a directory whose name ends like
\* an extension, another is left out with the directory the pattern
\* excludes.
FileUnderExcludedDirectoryLeftOut ==
  /\ Returned /\ fs.kind = "dir"
  /\ options.val.show_empty_folder
  /\ options.val.exclude_by_filter /= <<>>
  /\ options.val.include_extension_only /= <<>>
  /\ \E c, d \in Chains(fs) :
        /\ Len(c) = 3 /\ Last(c).kind = "file" /\ FileInTree(c)
        /\ EndsWith(c[2].name, options.val.include_extension_only[1])
        /\ Len(d) = 3 /\ Last(d).kind = "file"
        /\ MatchesFilter(d[2].name, options.val)
        /\ ExtensionPasses(Last(d).name, options.val)

\* The line is the last one printed for the children of its folder: no
\* line of the same depth follows before the output leaves the folder.
LastOfSiblings(lines, i) ==
  ~\E j \in (i + 1)..Len(lines) :
      /\ GlyphCount(lines[j]) = GlyphCount(lines[i])
      /\ \A k \in (i + 1)..(j - 1) : GlyphCount(lines[k]) > GlyphCount(lines[i])

\* C10: when empty folders are not shown, every Folder of a returned tree
\* has a child and the annotation Some(true); print_tree writes one line
\* per node, and the last line of the children of any folder is the one
\* with the corner glyph.
NoFolderSkippedAtDisplay ==
  (Returned /\ ~options.val.show_empty_folder) =>
    /\ \A f \in FoldersIn(Tree) : f.items /= <<>> /\ f.has_terminal = Some(TRUE)
    /\ pc = "done" =>
         /\ Len(stdout) = TreeSize(Tree)
         /\ \A i \in 2..Len(stdout) :
               Marker(stdout[i]) = CornerGlyph <=> LastOfSiblings(stdout, i)

\* Printed without empty folders: two sibling folders, each with a file.
TwoSiblingFoldersPrinted ==
  /\ pc = "done" /\ Returned /\ ~options.val.show_empty_folder
  /\ Tree.tag = "Folder" /\ Len(Tree.items) = 2
  /\ Tree.items[1].tag = "Folder" /\ Tree.items[2].tag = "Folder"
  /\ Len(stdout) = 5

====
